---- MODULE Spec2Model ----
(***************************************************************************)
(* Gridworld MDP (mdp.py): the environment model MDP, value_iteration,     *)
(* derive_policy and utils_and_policy.                                     *)
(*                                                                         *)
(* Numbers.  Python floats are modelled by exact fixed-point integers.     *)
(* Probabilities are counted in quarters (ProbOne), gamma and epsilon in   *)
(* halves (GammaOne, EpsOne), utilities in 1/Unit.  Every input is a       *)
(* dyadic rational, each sweep adds at most three binary digits, and Unit  *)
(* leaves room for MaxSweeps + 1 sweeps, so every division below is exact  *)
(* and the integers are the values the doubles hold.                       *)
(***************************************************************************)
EXTENDS Integers, Sequences, FiniteSets, TLC

\* ---------------------------------------------------------------- bounds
MaxCells == 4
MaxEnvCells == 9
MaxTerminals == 1
MaxSweeps == 4
MaxMissing == 1

\* ----------------------------------------------------------------- units
ProbOne == 4
GammaOne == 2
EpsOne == 2
Unit == (ProbOne * GammaOne) ^ (MaxSweeps + 1)

\* ---------------------------------------------------------------- inputs
RewardVals == {-2, 3}
RewardDefaults == {-1, 1}
ProbForwVals == {2, 4}
GammaVals == {0, 1, 2, 4}
EpsilonVals == {1, 4}
UtilityVals == {0, 1, 2}

VARIABLES
    nrows, ncols, rewards, terminals, prob_forw, reward_def,
    caller, none_args, gamma, epsilon, utility,
    state, action, succ__prob,
    utilities, updated_utilities, min_reward, convergence_val, convergence,
    sweep_start, sweeps,
    policy, idx, pc, returned

mdp_vars == <<nrows, ncols, rewards, terminals, prob_forw, reward_def>>
arg_vars == <<caller, none_args, gamma, epsilon>>
gsp_vars == <<state, action, succ__prob>>
vi_vars == <<utilities, updated_utilities, min_reward, convergence_val,
              convergence, sweep_start, sweeps>>
vars == <<mdp_vars, arg_vars, utility, gsp_vars, vi_vars, policy, idx, pc,
          returned>>

\* ------------------------------------------------------------ dictionaries
EmptyDict == [k \in {} |-> 0]

DictSet(d, k, v) == (k :> v) @@ d

\* defaultdict(float): d[k] += v creates the entry at 0.0 first
DictAdd(d, k, v) == DictSet(d, k, (IF k \in DOMAIN d THEN d[k] ELSE 0) + v)

Min2(a, b) == IF a < b THEN a ELSE b
Max2(a, b) == IF a > b THEN a ELSE b
Abs(a) == IF a < 0 THEN -a ELSE a

\* ---------------------------------------------------------- class MDP
\* __init__: states in column-major order
StatesOf(nr, nc) ==
    [k \in 1..(nr * nc) |-> <<((k - 1) \div nr) + 1, ((k - 1) % nr) + 1>>]

get_states == StatesOf(nrows, ncols)

StateSet == {get_states[k] : k \in DOMAIN get_states}

prob_side == (ProbOne - prob_forw) \div 2

actions == <<"up", "right", "down", "left">>

get_actions(s) == actions

get_reward(s) == IF s \in DOMAIN rewards THEN rewards[s] ELSE reward_def

is_terminal(s) == s \in terminals

succ_up(s) == <<s[1], Min2(nrows, s[2] + 1)>>
\* mutant: the move to the right is not clamped to the grid
succ_right_Unclamped(s) == <<s[1] + 1, s[2]>>

succ_right(s) == <<Min2(ncols, s[1] + 1), s[2]>>
succ_down(s) == <<s[1], Max2(1, s[2] - 1)>>
succ_left(s) == <<Max2(1, s[1] - 1), s[2]>>

\* mutant: the side moves are assigned (=) instead of added (+=)
Branch_SidesAssigned(forw, side1, side2) ==
    DictSet(DictSet(DictSet(EmptyDict, forw, prob_forw), side1, prob_side),
            side2, prob_side)

\* the three statements of one branch: forward assigned, both sides added
Branch(forw, side1, side2) ==
    DictAdd(DictAdd(DictSet(EmptyDict, forw, prob_forw), side1, prob_side),
            side2, prob_side)

get_successor_probs(s, a) ==
    IF is_terminal(s) THEN EmptyDict
    ELSE IF a = "up" THEN Branch(succ_up(s), succ_right(s), succ_left(s))
    ELSE IF a = "right" THEN Branch(succ_right(s), succ_up(s), succ_down(s))
    ELSE IF a = "down" THEN Branch(succ_down(s), succ_right(s), succ_left(s))
    ELSE IF a = "left" THEN Branch(succ_left(s), succ_up(s), succ_down(s))
    ELSE EmptyDict

\* -------------------------------------------------------- utility_prob_sum
RECURSIVE SumOver(_, _, _)
SumOver(keys, d, U) ==
    IF keys = {} THEN 0
    ELSE LET k == CHOOSE j \in keys : TRUE
         IN d[k] * U[k] + SumOver(keys \ {k}, d, U)

\* sum of prob * utility_dict[suc]; the quarters are divided out exactly
utility_prob_sum(prob_state_dict, utility_dict) ==
    SumOver(DOMAIN prob_state_dict, prob_state_dict, utility_dict) \div ProbOne

\* -------------------------------------------------------- value_iteration
Fix(r) == r * Unit

\* lines 107-113: min_reward starts at +inf (is_inf) and follows the rewards
RECURSIVE MinRewardLoop(_, _, _)
MinRewardLoop(i, is_inf, m) ==
    IF i > Len(get_states) THEN m
    ELSE LET u == Fix(get_reward(get_states[i]))
         IN IF is_inf \/ u < m
            THEN MinRewardLoop(i + 1, FALSE, u)
            ELSE MinRewardLoop(i + 1, FALSE, m)

SetMax(S) == CHOOSE m \in S : \A n \in S : m >= n

\* lines 121-126: max_val starts at min_reward (floor) and is raised by the
\* expected utility of each action, so it ends as the largest of them all
max_val(s, U, floor) ==
    SetMax({floor} \cup
           {utility_prob_sum(d, U) :
                d \in {get_successor_probs(s, get_actions(s)[i]) :
                           i \in DOMAIN get_actions(s)}})

\* line 128
NewUtility(s, U, floor) ==
    Fix(get_reward(s)) + (gamma * max_val(s, U, floor)) \div GammaOne

EpsilonFix == (epsilon * Unit) \div EpsOne

\* mutant: the change of the last state replaces the running maximum
ConvergenceVal_LastOnly(cv, temp, new) == Abs(temp - new)

\* lines 130-131
ConvergenceVal(cv, temp, new) == Max2(cv, Abs(temp - new))

\* lines 133-134
CopyOver(U, upd) ==
    [s \in DOMAIN U \cup DOMAIN upd |-> IF s \in DOMAIN upd THEN upd[s] ELSE U[s]]

\* ---------------------------------------------------------- derive_policy
\* mutant: utility.get(s_p, 0.0) in place of utility[s_p]
Subscript_Default(U, k) ==
    [ok |-> TRUE, val |-> IF k \in DOMAIN U THEN U[k] ELSE 0]

\* utility[s_p]: a missing key raises KeyError
Subscript(U, k) ==
    IF k \in DOMAIN U THEN [ok |-> TRUE, val |-> U[k]]
    ELSE [ok |-> FALSE, val |-> 0]

RECURSIVE ExpSum(_, _, _)
ExpSum(keys, d, U) ==
    IF keys = {} THEN 0
    ELSE LET k == CHOOSE j \in keys : TRUE
         IN d[k] * Subscript(U, k).val + ExpSum(keys \ {k}, d, U)

\* lines 173-174; the value is in quarters of the utility unit
exp_util(s, a, U) ==
    LET d == get_successor_probs(s, a) IN ExpSum(DOMAIN d, d, U)

ExpUtilRaises(s, a, U) ==
    \E k \in DOMAIN get_successor_probs(s, a) : ~Subscript(U, k).ok

\* mutant: >= in place of >
Better_OrEqual(e, best_utility) == e >= best_utility

\* line 176
Better(e, best_utility) == e > best_utility

\* lines 167-178: best_action = None exactly while best_utility = -inf
RECURSIVE BestLoop(_, _, _, _, _)
BestLoop(i, s, U, best_action, best_utility) ==
    IF i > Len(get_actions(s)) THEN best_action
    ELSE LET a == get_actions(s)[i]
             e == exp_util(s, a, U)
         IN IF best_action = "None" \/ Better(e, best_utility)
            THEN BestLoop(i + 1, s, U, a, e)
            ELSE BestLoop(i + 1, s, U, best_action, best_utility)

\* ------------------------------------------------------------- ascii_grid
\* the grid ascii_grid prints: rows 2 and 1 of columns 1 to 3
AsciiRows == 2
AsciiCols == 3
AsciiKeys == {<<x, y>> : x \in 1..AsciiCols, y \in 1..AsciiRows}

ascii_grid_raises(vals) == ~(AsciiKeys \subseteq DOMAIN vals)

\* ================================================================ states
\* the rewards argument: no override, or one state overridden
RewardDicts(S) == {EmptyDict} \cup {k :> v : k \in S, v \in RewardVals}

\* grids of at most the given number of cells, as <<num_rows, num_cols>>
GridsUpTo(cells) ==
    {g \in (1..cells) \X (1..cells) : g[1] * g[2] <= cells}

AsciiGrids == (1..AsciiRows) \X (1..AsciiCols)

TerminalSets(S) == {T \in SUBSET S : Cardinality(T) <= MaxTerminals}

UtilityDicts(S) ==
    UNION {[K -> UtilityVals] :
           K \in {K \in SUBSET S : Cardinality(S \ K) <= MaxMissing}}

SetOf(seq) == {seq[k] : k \in DOMAIN seq}

\* MDP(num_rows, num_cols, rewards, terminals, prob_forw, reward_default)
InitMDP(grids) ==
    /\ \E g \in grids : nrows = g[1] /\ ncols = g[2]
    /\ rewards \in RewardDicts(SetOf(StatesOf(nrows, ncols)))
    /\ terminals \in TerminalSets(SetOf(StatesOf(nrows, ncols)))
    /\ prob_forw \in ProbForwVals
    /\ reward_def \in RewardDefaults

InitLocals ==
    /\ state = <<1, 1>>
    /\ action = "up"
    /\ succ__prob = EmptyDict
    /\ utilities = EmptyDict
    /\ updated_utilities = EmptyDict
    /\ min_reward = 0
    /\ convergence_val = 0
    /\ convergence = FALSE
    /\ sweep_start = EmptyDict
    /\ sweeps = 0
    /\ policy = EmptyDict
    /\ idx = 0
    /\ returned = ""

\* a caller of MDP.get_successor_probs
InitEnv ==
    /\ \E g \in GridsUpTo(MaxEnvCells) : nrows = g[1] /\ ncols = g[2]
    /\ rewards = EmptyDict
    /\ terminals \in TerminalSets(SetOf(StatesOf(nrows, ncols)))
    /\ prob_forw \in ProbForwVals
    /\ reward_def = 0
    /\ caller = "get_successor_probs"
    /\ none_args = {}
    /\ gamma = 0
    /\ epsilon = 0
    /\ utility = EmptyDict
    /\ InitLocals
    /\ pc = "ready"

\* a caller of value_iteration(mdp, gamma, epsilon)
InitVI ==
    /\ InitMDP(GridsUpTo(MaxCells))
    /\ caller = "value_iteration"
    /\ none_args = {}
    /\ gamma \in GammaVals
    /\ epsilon \in EpsilonVals
    /\ utility = EmptyDict
    /\ InitLocals
    /\ pc = "vi_start"

\* a caller of derive_policy(mdp, utility)
InitDP ==
    /\ \E g \in GridsUpTo(MaxCells) : nrows = g[1] /\ ncols = g[2]
    /\ rewards = EmptyDict
    /\ terminals \in TerminalSets(SetOf(StatesOf(nrows, ncols)))
    /\ prob_forw \in ProbForwVals
    /\ reward_def = 0
    /\ caller = "derive_policy"
    /\ none_args = {}
    /\ gamma = 0
    /\ epsilon = 0
    /\ utility \in UtilityDicts(SetOf(StatesOf(nrows, ncols)))
    /\ InitLocals
    /\ pc = "dp_start"

\* a caller of utils_and_policy(emdeepee, gamma, epsilon)
InitUP ==
    /\ InitMDP(AsciiGrids)
    /\ caller = "utils_and_policy"
    /\ none_args \in SUBSET {"emdeepee", "gamma", "epsilon"}
    /\ gamma \in GammaVals
    /\ epsilon \in EpsilonVals
    /\ utility = EmptyDict
    /\ InitLocals
    /\ pc = "up_start"

\* =============================================================== actions
\* MDP.get_successor_probs(s, a), lines 50-80
GetSuccessorProbs(s, a) ==
    /\ pc = "ready"
    /\ state' = s
    /\ action' = a
    /\ succ__prob' = get_successor_probs(s, a)
    /\ returned' = "succ__prob"
    /\ UNCHANGED <<mdp_vars, arg_vars, utility, vi_vars, policy, idx, pc>>

\* value_iteration, lines 104-114
ViStart ==
    /\ pc = "vi_start"
    /\ utilities' = [s \in StateSet |-> Fix(get_reward(s))]
    /\ updated_utilities' = EmptyDict
    /\ min_reward' = MinRewardLoop(1, TRUE, 0)
    /\ convergence' = FALSE
    /\ pc' = "while"
    /\ UNCHANGED <<mdp_vars, arg_vars, utility, gsp_vars, convergence_val,
                   sweep_start, sweeps, policy, idx, returned>>

\* mutant: convergence_val is set to 0 once, before the while loop
SweepBegin_NoReset ==
    /\ pc = "while"
    /\ ~convergence
    /\ sweeps < MaxSweeps
    /\ sweep_start' = utilities
    /\ sweeps' = sweeps + 1
    /\ idx' = 1
    /\ pc' = "update"
    /\ UNCHANGED <<mdp_vars, arg_vars, utility, gsp_vars, utilities,
                   updated_utilities, min_reward, convergence_val,
                   convergence, policy, returned>>

\* lines 116-117: one more sweep begins
SweepBegin ==
    /\ pc = "while"
    /\ ~convergence
    /\ sweeps < MaxSweeps
    /\ convergence_val' = 0
    /\ sweep_start' = utilities
    /\ sweeps' = sweeps + 1
    /\ idx' = 1
    /\ pc' = "update"
    /\ UNCHANGED <<mdp_vars, arg_vars, utility, gsp_vars, utilities,
                   updated_utilities, min_reward, convergence, policy,
                   returned>>

\* mutant: the new value is written into utilities at once (in-place sweep)
UpdateState_InPlace ==
    /\ pc = "update"
    /\ \E s \in {get_states[idx]} :
         \E new \in {NewUtility(s, utilities, min_reward)} :
           LET temp == utilities[s]
           IN /\ updated_utilities' = DictSet(updated_utilities, s, new)
              /\ utilities' = DictSet(utilities, s, new)
              /\ convergence_val' = ConvergenceVal(convergence_val, temp, new)
    /\ idx' = idx + 1
    /\ pc' = IF idx = Len(get_states) THEN "copy" ELSE "update"
    /\ UNCHANGED <<mdp_vars, arg_vars, utility, gsp_vars, min_reward,
                   convergence, sweep_start, sweeps, policy, returned>>

\* lines 119-131: the body of the for loop, for the state at idx
UpdateState ==
    /\ pc = "update"
    /\ \E s \in {get_states[idx]} :
         \E new \in {NewUtility(s, utilities, min_reward)} :
           LET temp == utilities[s]
           IN /\ updated_utilities' = DictSet(updated_utilities, s, new)
              /\ convergence_val' = ConvergenceVal(convergence_val, temp, new)
    /\ idx' = idx + 1
    /\ pc' = IF idx = Len(get_states) THEN "copy" ELSE "update"
    /\ UNCHANGED <<mdp_vars, arg_vars, utility, gsp_vars, utilities,
                   min_reward, convergence, sweep_start, sweeps, policy,
                   returned>>

\* lines 133-134
CopyBack ==
    /\ pc = "copy"
    /\ utilities' = CopyOver(utilities, updated_utilities)
    /\ pc' = "check"
    /\ UNCHANGED <<mdp_vars, arg_vars, utility, gsp_vars, updated_utilities,
                   min_reward, convergence_val, convergence, sweep_start,
                   sweeps, policy, idx, returned>>

\* lines 136-137
CheckConvergence ==
    /\ pc = "check"
    /\ convergence' = (convergence_val <= EpsilonFix)
    /\ pc' = "while"
    /\ UNCHANGED <<mdp_vars, arg_vars, utility, gsp_vars, utilities,
                   updated_utilities, min_reward, convergence_val,
                   sweep_start, sweeps, policy, idx, returned>>

\* line 138: return updated_utilities
ViReturn ==
    /\ pc = "while"
    /\ convergence
    /\ returned' = "utilities"
    /\ pc' = IF caller = "utils_and_policy" THEN "up_print_utils" ELSE "done"
    /\ UNCHANGED <<mdp_vars, arg_vars, utility, gsp_vars, vi_vars, policy,
                   idx>>

\* derive_policy, line 160
DpStart ==
    /\ pc = "dp_start"
    /\ policy' = EmptyDict
    /\ idx' = 1
    /\ pc' = "dp_loop"
    /\ UNCHANGED <<mdp_vars, arg_vars, utility, gsp_vars, vi_vars, returned>>

\* lines 162-180: the body of the for loop, for the state at idx
DeriveState ==
    /\ pc = "dp_loop"
    /\ idx <= Len(get_states)
    /\ LET s == get_states[idx]
       IN IF is_terminal(s)
          THEN /\ policy' = DictSet(policy, s, "None")
               /\ idx' = idx + 1
               /\ UNCHANGED <<pc, returned>>
          ELSE IF \E i \in DOMAIN get_actions(s) :
                      ExpUtilRaises(s, get_actions(s)[i], utility)
          THEN /\ IF caller = "utils_and_policy"
                  THEN pc' = "up_except" /\ UNCHANGED returned
                  ELSE pc' = "done" /\ returned' = "KeyError"
               /\ UNCHANGED <<policy, idx>>
          ELSE /\ policy' = DictSet(policy, s, BestLoop(1, s, utility, "None", 0))
               /\ idx' = idx + 1
               /\ UNCHANGED <<pc, returned>>
    /\ UNCHANGED <<mdp_vars, arg_vars, utility, gsp_vars, vi_vars>>

\* line 181: return policy
DpReturn ==
    /\ pc = "dp_loop"
    /\ idx > Len(get_states)
    /\ returned' = "policy"
    /\ pc' = IF caller = "utils_and_policy" THEN "up_print_policy" ELSE "done"
    /\ UNCHANGED <<mdp_vars, arg_vars, utility, gsp_vars, vi_vars, policy,
                   idx>>

\* utils_and_policy, lines 201-203
UpNoneArgs ==
    /\ pc = "up_start"
    /\ none_args # {}
    /\ returned' = "(None, None)"
    /\ pc' = "done"
    /\ UNCHANGED <<mdp_vars, arg_vars, utility, gsp_vars, vi_vars, policy,
                   idx>>

\* line 204
UpCallValueIteration ==
    /\ pc = "up_start"
    /\ none_args = {}
    /\ pc' = "vi_start"
    /\ UNCHANGED <<mdp_vars, arg_vars, utility, gsp_vars, vi_vars, policy,
                   idx, returned>>

\* lines 206-208: print the utilities, then call derive_policy on them
UpPrintUtils ==
    /\ pc = "up_print_utils"
    /\ IF ascii_grid_raises(updated_utilities)
       THEN pc' = "up_except" /\ UNCHANGED utility
       ELSE pc' = "dp_start" /\ utility' = updated_utilities
    /\ UNCHANGED <<mdp_vars, arg_vars, gsp_vars, vi_vars, policy, idx,
                   returned>>

\* line 209
UpPrintPolicy ==
    /\ pc = "up_print_policy"
    /\ pc' = IF ascii_grid_raises(policy) THEN "up_except" ELSE "up_return"
    /\ UNCHANGED <<mdp_vars, arg_vars, utility, gsp_vars, vi_vars, policy,
                   idx, returned>>

\* lines 210-218
UpExcept ==
    /\ pc = "up_except"
    /\ returned' = "(None, None)"
    /\ pc' = "done"
    /\ UNCHANGED <<mdp_vars, arg_vars, utility, gsp_vars, vi_vars, policy,
                   idx>>

\* line 220
UpReturn ==
    /\ pc = "up_return"
    /\ returned' = "(utilities, policy)"
    /\ pc' = "done"
    /\ UNCHANGED <<mdp_vars, arg_vars, utility, gsp_vars, vi_vars, policy,
                   idx>>

\* ======================================================== specifications
NextEnv == \E s \in StateSet : \E i \in DOMAIN actions :
               GetSuccessorProbs(s, actions[i])

NextVI ==
    \/ ViStart
    \/ SweepBegin
    \/ UpdateState
    \/ CopyBack
    \/ CheckConvergence
    \/ ViReturn

NextDP ==
    \/ DpStart
    \/ DeriveState
    \/ DpReturn

NextUP ==
    \/ UpNoneArgs
    \/ UpCallValueIteration
    \/ NextVI
    \/ UpPrintUtils
    \/ NextDP
    \/ UpPrintPolicy
    \/ UpExcept
    \/ UpReturn

SpecEnv == InitEnv /\ [][NextEnv]_vars
SpecVI == InitVI /\ [][NextVI]_vars
SpecDP == InitDP /\ [][NextDP]_vars
SpecUP == InitUP /\ [][NextUP]_vars

\* value_iteration called with 0 <= gamma < 1 and epsilon > 0
InitLive ==
    /\ InitVI
    /\ gamma >= 0
    /\ gamma < GammaOne
    /\ epsilon > 0

\* the while loop keeps running: value_iteration is a sequential program
LiveVI == InitLive /\ [][NextVI]_vars /\ WF_vars(NextVI)

\* every division of the fixed-point arithmetic is exact
ExactArithmetic ==
    /\ (epsilon * Unit) % EpsOne = 0
    /\ (ProbOne - prob_forw) % 2 = 0
    /\ \A s \in DOMAIN utilities :
           utilities[s] % ((ProbOne * GammaOne) ^ (MaxSweeps + 1 - sweeps)) = 0
    /\ \A s \in DOMAIN updated_utilities :
           updated_utilities[s] % ((ProbOne * GammaOne) ^ (MaxSweeps + 1 - sweeps)) = 0

\* ================================================================ claims
RECURSIVE DictTotal(_)
DictTotal(d) ==
    IF DOMAIN d = {} THEN 0
    ELSE LET k == CHOOSE j \in DOMAIN d : TRUE
         IN d[k] + DictTotal([j \in DOMAIN d \ {k} |-> d[j]])

ViDone == caller = "value_iteration" /\ pc = "done" /\ returned = "utilities"

GspDone == returned = "succ__prob" /\ state \in StateSet /\ ~is_terminal(state)

\* C1: the utility of every terminal state is exactly get_reward(state), in
\* the initial map, after every sweep and in the map value_iteration returns.
C1_TerminalUtilityIsReward ==
    /\ \A s \in terminals \cap DOMAIN utilities :
           utilities[s] = Fix(get_reward(s))
    /\ \A s \in terminals \cap DOMAIN updated_utilities :
           updated_utilities[s] = Fix(get_reward(s))

\* C2: for a non-terminal state the probabilities get_successor_probs returns
\* sum to prob_forw + 2*prob_side = 1, and each entry is the sum of the
\* probabilities of the attempted moves that land on its state.
C2_ProbabilitiesSumToOne ==
    GspDone =>
        LET forw == IF action = "up" THEN succ_up(state)
                    ELSE IF action = "right" THEN succ_right(state)
                    ELSE IF action = "down" THEN succ_down(state)
                    ELSE succ_left(state)
            sides == IF action \in {"up", "down"}
                     THEN <<succ_right(state), succ_left(state)>>
                     ELSE <<succ_up(state), succ_down(state)>>
        IN /\ DictTotal(succ__prob) = prob_forw + 2 * prob_side
           /\ DictTotal(succ__prob) = ProbOne
           /\ DOMAIN succ__prob = {forw, sides[1], sides[2]}
           /\ \A k \in DOMAIN succ__prob :
                  succ__prob[k] = (IF forw = k THEN prob_forw ELSE 0)
                                  + (IF sides[1] = k THEN prob_side ELSE 0)
                                  + (IF sides[2] = k THEN prob_side ELSE 0)

\* C2 witness: a call at a wall, where moves were merged into one entry
C2_Witness ==
    /\ GspDone
    /\ prob_side > 0
    /\ Cardinality(DOMAIN succ__prob) < 3
    /\ \E k \in DOMAIN succ__prob : succ__prob[k] > prob_forw
    /\ DictTotal(succ__prob) = ProbOne

\* C3 as stated: after value_iteration returns U, one more sweep over U
\* changes no state's value by more than epsilon, whatever gamma is.
C3_NextSweepWithinEpsilon ==
    ViDone =>
        \A s \in StateSet :
            Abs(NewUtility(s, updated_utilities, min_reward)
                - updated_utilities[s]) <= EpsilonFix

\* C3 amended: the same when 0 <= gamma <= 1.
C3_NextSweepWithinEpsilonDiscounted ==
    (ViDone /\ gamma >= 0 /\ gamma <= GammaOne) =>
        \A s \in StateSet :
            Abs(NewUtility(s, updated_utilities, min_reward)
                - updated_utilities[s]) <= EpsilonFix

\* C3 witness: a return after several sweeps where the next sweep still moves
C3_Witness ==
    /\ ViDone
    /\ gamma > 0
    /\ gamma <= GammaOne
    /\ sweeps >= 2
    /\ \E s \in StateSet :
           NewUtility(s, updated_utilities, min_reward) # updated_utilities[s]

\* C4: for every non-terminal state the action derive_policy chose has an
\* expected utility >= that of every action and > that of every earlier one.
C4_PolicyIsFirstArgmax ==
    (caller = "derive_policy" /\ pc = "done" /\ returned = "policy") =>
        \A s \in StateSet \ terminals :
            \E i \in DOMAIN actions :
                /\ policy[s] = actions[i]
                /\ \A j \in DOMAIN actions :
                       /\ exp_util(s, actions[i], utility)
                              >= exp_util(s, actions[j], utility)
                       /\ j < i => exp_util(s, actions[i], utility)
                                       > exp_util(s, actions[j], utility)

\* C4 witness: a policy with a tie resolved to the first action and a state
\* where a later action strictly won
C4_Witness ==
    /\ caller = "derive_policy" /\ pc = "done" /\ returned = "policy"
    /\ \E s \in StateSet \ terminals :
           /\ policy[s] = "right"
           /\ exp_util(s, "right", utility) = exp_util(s, "down", utility)
    /\ \E s \in StateSet \ terminals : policy[s] = "left"

\* C5: with 0 <= gamma < 1 and epsilon > 0, value_iteration returns.
C5_Terminates ==
    (caller = "value_iteration" /\ gamma >= 0 /\ gamma < GammaOne
        /\ epsilon > 0) ~> (pc = "done" /\ returned = "utilities")

\* C5 witness: a return after three sweeps under a discount in (0, 1)
C5_Witness ==
    /\ ViDone
    /\ gamma > 0
    /\ gamma < GammaOne
    /\ epsilon > 0
    /\ sweeps >= 3

MissingSuccessor ==
    \E s \in StateSet \ terminals : \E i \in DOMAIN actions :
        \E k \in DOMAIN get_successor_probs(s, actions[i]) :
            k \notin DOMAIN utility

\* C6: when the utility map lacks a successor of a non-terminal state,
\* derive_policy never returns a policy and ends in a KeyError.
C6_MissingKeyRaises ==
    (caller = "derive_policy" /\ MissingSuccessor) =>
        /\ returned # "policy"
        /\ pc = "done" => returned = "KeyError"
        /\ pc = "dp_loop" => idx <= Len(get_states)

\* C6 witness: the KeyError came from the first action tried, on a successor
\* whose probability is 0
C6_Witness ==
    /\ caller = "derive_policy" /\ pc = "done" /\ returned = "KeyError"
    /\ policy # EmptyDict
    /\ LET d == get_successor_probs(get_states[idx], actions[1])
       IN /\ \E k \in DOMAIN d : k \notin DOMAIN utility
          /\ \A k \in DOMAIN d : k \notin DOMAIN utility => d[k] = 0

\* C7: utils_and_policy returns (None, None) only when an argument is None;
\* otherwise it returns the utilities and the policy derived from them.
C7_NoneOnlyForNoneArgs ==
    (caller = "utils_and_policy" /\ pc = "done") =>
        IF none_args # {} THEN returned = "(None, None)"
        ELSE /\ returned = "(utilities, policy)"
             /\ DOMAIN updated_utilities = StateSet
             /\ DOMAIN policy = StateSet

\* C8: during a sweep the snapshot is the one the sweep began with, every
\* value written so far was computed from it, and after the copy the
\* snapshot holds the new values.
C8_SweepReadsOnlySnapshot ==
    /\ pc \in {"update", "copy"} =>
           /\ utilities = sweep_start
           /\ \A i \in 1..(idx - 1) :
                  updated_utilities[get_states[i]]
                      = NewUtility(get_states[i], sweep_start, min_reward)
    /\ pc = "check" =>
           /\ utilities = updated_utilities
           /\ \A s \in StateSet :
                  utilities[s] = NewUtility(s, sweep_start, min_reward)

\* C8 witness: the end of a later sweep whose values differ from the snapshot
\* at two states that are successors of one another
C8_Witness ==
    /\ pc = "copy"
    /\ sweeps >= 2
    /\ \E s \in StateSet \ terminals :
           /\ updated_utilities[s] # sweep_start[s]
           /\ \E t \in DOMAIN get_successor_probs(s, "up") :
                  t # s /\ updated_utilities[t] # sweep_start[t]

\* C9: the new utility of a non-terminal state is reward + gamma * (max over
\* the four actions of the expected snapshot utility); min_reward plays no part.
C9_BellmanUpdateWithoutFloor ==
    pc \in {"update", "copy"} =>
        \A i \in 1..(idx - 1) :
            LET s == get_states[i]
                sums == {utility_prob_sum(get_successor_probs(s, actions[j]),
                                          sweep_start) : j \in DOMAIN actions}
                best == CHOOSE m \in sums : \A n \in sums : m >= n
            IN ~is_terminal(s) =>
                   updated_utilities[s]
                       = Fix(get_reward(s)) + (gamma * best) \div GammaOne

\* C10: every successor of a non-terminal state is inside the grid and is the
\* state itself or its neighbour in the intended or an orthogonal direction;
\* the neighbour in the reverse direction is never a successor.
C10_SuccessorsInGrid ==
    GspDone =>
        LET x == state[1]
            y == state[2]
            ahead == IF action = "up" THEN <<x, y + 1>>
                     ELSE IF action = "right" THEN <<x + 1, y>>
                     ELSE IF action = "down" THEN <<x, y - 1>>
                     ELSE <<x - 1, y>>
            behind == <<2 * x - ahead[1], 2 * y - ahead[2]>>
            beside == IF action \in {"up", "down"}
                      THEN {<<x + 1, y>>, <<x - 1, y>>}
                      ELSE {<<x, y + 1>>, <<x, y - 1>>}
        IN /\ DOMAIN succ__prob # {}
           /\ \A k \in DOMAIN succ__prob :
                  /\ k[1] \in 1..ncols
                  /\ k[2] \in 1..nrows
                  /\ k \in StateSet
                  /\ k \in {state, ahead} \cup beside
           /\ behind \notin DOMAIN succ__prob

\* C10 witness: a call from an inner edge where the reverse neighbour exists
\* and a move was clamped
C10_Witness ==
    /\ GspDone
    /\ action = "down"
    /\ state[2] = 1
    /\ <<state[1], 2>> \in StateSet
    /\ state \in DOMAIN succ__prob
    /\ Cardinality(DOMAIN succ__prob) = 3

====
